---- MODULE Spec2Model ----
\* Model of homeassistant/components/cambridge_audio/media_player.py:
\* CambridgeAudioDevice, the media-player entity that adapts a StreamMagic
\* client (the vendor client) to the host platform.
\*
\* The vendor client's snapshot is the state the entity reads; the entity
\* itself holds no mutable state.  Every step records what it did in
\* lastOp (the handler and its argument), calls (the outbound calls the
\* handler made, in order) and result (the value a property getter returned).
EXTENDS Integers, Sequences, FiniteSets, TLC

VARIABLES
    play_state,      \* client.play_state.state
    power,           \* client.state.power
    pre_amp_mode,    \* client.state.pre_amp_mode
    controls,        \* client.now_playing.controls
    sources,         \* client.sources, an ordered list of [id, name]
    mode_shuffle,    \* client.play_state.mode_shuffle
    callbacks,       \* the client's registered state-update callbacks
    platform_state,  \* the entity's lifecycle in the host platform
    lastOp,          \* the last handler that ran, with its argument
    calls,           \* the outbound calls that handler made
    result           \* the value the last property getter returned

vars == <<play_state, power, pre_amp_mode, controls, sources, mode_shuffle,
          callbacks, platform_state, lastOp, calls, result>>

vendor == <<play_state, power, pre_amp_mode, controls, sources, mode_shuffle>>

\* Python's None
None == "None"

----------------------------------------------------------------------------
\* Value domains

\* Bounds of the model
MaxSources == 3
MaxSourceId == 2

\* TransportControl members the entity names, and STOP, which
\* TRANSPORT_FEATURES does not map.
TransportControl ==
    {"PLAY", "PAUSE", "PLAY_PAUSE", "TRACK_NEXT", "TRACK_PREVIOUS",
     "TOGGLE_REPEAT", "TOGGLE_SHUFFLE", "SEEK", "STOP"}

\* Values of client.play_state.state: the ones state() tests, and two others.
PlayStates ==
    {"NETWORK", "play", "pause", "connecting", "stop", "ready",
     "not_ready", "no_media"}

\* Values of client.play_state.mode_shuffle: None or a ShuffleMode member.
ShuffleModes == {None, "OFF", "ALL", "TRACK"}

\* The platform's RepeatMode, a string enumeration: member -> value.
RepeatMode == [ALL |-> "all", OFF |-> "off", ONE |-> "one"]

RepeatModes == {RepeatMode.ALL, RepeatMode.OFF, RepeatMode.ONE}

SourceNames == {"Radio", "Aux"}

SourceRec == [id : 1..MaxSourceId, name : SourceNames]

SourceLists == UNION {[1..n -> SourceRec] : n \in 0..MaxSources}

----------------------------------------------------------------------------
\* Feature tables

BASE_FEATURES == {"SELECT_SOURCE", "TURN_OFF", "TURN_ON"}

PREAMP_FEATURES == {"VOLUME_MUTE", "VOLUME_SET", "VOLUME_STEP"}

\* TRANSPORT_FEATURES.get(control): None for a control the table lacks.
TRANSPORT_FEATURES(control) ==
    CASE control = "PLAY" -> "PLAY"
      [] control = "PAUSE" -> "PAUSE"
      [] control = "TRACK_NEXT" -> "NEXT_TRACK"
      [] control = "TRACK_PREVIOUS" -> "PREVIOUS_TRACK"
      [] control = "TOGGLE_REPEAT" -> "REPEAT_SET"
      [] control = "TOGGLE_SHUFFLE" -> "SHUFFLE_SET"
      [] control = "SEEK" -> "SEEK"
      [] OTHER -> None

\* Truth value of a Python str (a StrEnum member is its value): non-empty.
StrTruthy(s) == s # ""

\* Truth value of an Optional[str]: None and "" are false.
OptTruthy(v) == v # None /\ v # ""

----------------------------------------------------------------------------
\* Property getters

SupportedFeaturesPlayImpliesPause(ctrls, preamp) ==
    LET f0 == BASE_FEATURES
        f1 == IF preamp THEN f0 \cup PREAMP_FEATURES ELSE f0
        f2 == IF "PLAY_PAUSE" \in ctrls \/ "PLAY" \in ctrls
              THEN f1 \cup {"PLAY", "PAUSE"} ELSE f1
    IN  f2 \cup {TRANSPORT_FEATURES(c) :
                    c \in {x \in ctrls : TRANSPORT_FEATURES(x) # None}}

\* supported_features: the union, over the advertised controls, of the
\* features that test true (every mapped feature is a non-zero flag).
SupportedFeatures(ctrls, preamp) ==
    LET f0 == BASE_FEATURES
        f1 == IF preamp THEN f0 \cup PREAMP_FEATURES ELSE f0
        f2 == IF "PLAY_PAUSE" \in ctrls THEN f1 \cup {"PLAY", "PAUSE"} ELSE f1
    IN  f2 \cup {TRANSPORT_FEATURES(c) :
                    c \in {x \in ctrls : TRANSPORT_FEATURES(x) # None}}

StatePowerFirst(media_state, pw) ==
    IF pw
    THEN CASE media_state = "NETWORK" -> "STANDBY"
           [] media_state = "play" -> "PLAYING"
           [] media_state = "pause" -> "PAUSED"
           [] media_state = "connecting" -> "BUFFERING"
           [] media_state \in {"stop", "ready"} -> "IDLE"
           [] OTHER -> "ON"
    ELSE "OFF"

\* state
State(media_state, pw) ==
    IF media_state = "NETWORK" THEN "STANDBY"
    ELSE IF pw
    THEN IF media_state = "play" THEN "PLAYING"
         ELSE IF media_state = "pause" THEN "PAUSED"
         ELSE IF media_state = "connecting" THEN "BUFFERING"
         ELSE IF media_state \in {"stop", "ready"} THEN "IDLE"
         ELSE "ON"
    ELSE "OFF"

\* shuffle
Shuffle(mode) ==
    IF ~OptTruthy(mode) THEN FALSE ELSE mode # "OFF"

----------------------------------------------------------------------------
\* Command handlers: the calls each makes on the vendor client

Call(name) == [call |-> name]

CallWith(name, arg) == [call |-> name, arg |-> arg]

MediaPauseTogglesWhenCombined(ctrls) ==
    IF "PLAY_PAUSE" \in ctrls THEN <<Call("play_pause")>> ELSE <<Call("pause")>>

\* async_media_pause
MediaPause(ctrls) ==
    IF "PAUSE" \notin ctrls /\ "PLAY_PAUSE" \in ctrls
    THEN <<Call("play_pause")>>
    ELSE <<Call("pause")>>

\* async_media_play_pause
MediaPlayPause == <<Call("play_pause")>>

MediaPlayTogglesWhenCombined(ctrls) ==
    IF "PLAY_PAUSE" \in ctrls THEN <<Call("play_pause")>> ELSE <<Call("play")>>

MediaPlayAlwaysDirect(ctrls) == <<Call("play")>>

\* async_media_play
MediaPlay(ctrls) ==
    IF "PLAY" \notin ctrls /\ "PLAY_PAUSE" \in ctrls
    THEN <<Call("play_pause")>>
    ELSE <<Call("play")>>

RECURSIVE SelectSourceNoBreak(_, _)
SelectSourceNoBreak(srcs, source) ==
    IF srcs = <<>> THEN <<>>
    ELSE IF Head(srcs).name = source
    THEN <<CallWith("set_source_by_id", Head(srcs).id)>>
             \o SelectSourceNoBreak(Tail(srcs), source)
    ELSE SelectSourceNoBreak(Tail(srcs), source)

\* async_select_source: the loop over client.sources, left at the first match
RECURSIVE SelectSource(_, _)
SelectSource(srcs, source) ==
    IF srcs = <<>> THEN <<>>
    ELSE IF Head(srcs).name = source
    THEN <<CallWith("set_source_by_id", Head(srcs).id)>>
    ELSE SelectSource(Tail(srcs), source)

SetShuffleInverted(shuffle) ==
    <<CallWith("set_shuffle", IF shuffle THEN "OFF" ELSE "ALL")>>

\* async_set_shuffle
SetShuffle(shuffle) ==
    LET shuffle_mode == IF shuffle THEN "ALL" ELSE "OFF"
    IN  <<CallWith("set_shuffle", shuffle_mode)>>

\* async_set_repeat: `if repeat:` tests the truth value of the RepeatMode
\* member, which is that of its string value.
SetRepeat(repeat) ==
    LET repeat_mode == IF StrTruthy(repeat) THEN "ALL" ELSE "OFF"
    IN  <<CallWith("set_repeat", repeat_mode)>>

----------------------------------------------------------------------------
\* Notification subscription

\* The bound method the entity registers and unregisters
StateUpdateCallback == "_state_update_callback"

\* _state_update_callback, run when the client invokes callback cb
RunCallback(cb) ==
    IF cb = StateUpdateCallback
    THEN <<Call("schedule_update_ha_state")>>
    ELSE <<>>

\* The client invokes every registered callback, in order
RECURSIVE Notify(_)
Notify(cbs) ==
    IF cbs = <<>> THEN <<>> ELSE RunCallback(Head(cbs)) \o Notify(Tail(cbs))

\* async_added_to_hass: the callback handed to
\* register_state_update_callbacks
AddedCallback == StateUpdateCallback

WillRemoveOtherCallback == "_other_callback"

\* async_will_remove_from_hass: the callback handed to
\* unregister_state_update_callbacks
WillRemoveCallback == StateUpdateCallback

\* The client's registry.  The host adds an entity once and removes it once,
\* so at most one registration is ever held and the registry's treatment of
\* a repeated registration is not exercised.
Register(cbs, cb) == Append(cbs, cb)

Unregister(cbs, cb) == SelectSeq(cbs, LAMBDA x : x # cb)

----------------------------------------------------------------------------
\* The host adds an entity to the platform once and removes it once.
CanAdd == platform_state = "not_added"

CanRemove == platform_state = "added"

----------------------------------------------------------------------------
\* Steps
\*
\* lastOp and calls describe the last command handler for as long as the
\* snapshot it read stands; result holds what the last getter returned for
\* as long as the snapshot it read stands.

NoResult == [get |-> "none"]

Returned(getter, value) == [get |-> getter, value |-> value]

GetSupportedFeatures ==
    /\ result' = Returned("supported_features",
                          SupportedFeatures(controls, pre_amp_mode))
    /\ UNCHANGED <<vendor, callbacks, platform_state, lastOp, calls>>

GetState ==
    /\ result' = Returned("state", State(play_state, power))
    /\ UNCHANGED <<vendor, callbacks, platform_state, lastOp, calls>>

GetShuffle ==
    /\ result' = Returned("shuffle", Shuffle(mode_shuffle))
    /\ UNCHANGED <<vendor, callbacks, platform_state, lastOp, calls>>

AsyncMediaPlayPause ==
    /\ lastOp' = [op |-> "media_play_pause"]
    /\ calls' = MediaPlayPause
    /\ UNCHANGED <<vendor, callbacks, platform_state, result>>

AsyncMediaPause ==
    /\ lastOp' = [op |-> "media_pause"]
    /\ calls' = MediaPause(controls)
    /\ UNCHANGED <<vendor, callbacks, platform_state, result>>

AsyncMediaPlay ==
    /\ lastOp' = [op |-> "media_play"]
    /\ calls' = MediaPlay(controls)
    /\ UNCHANGED <<vendor, callbacks, platform_state, result>>

AsyncSelectSource ==
    /\ \E source \in SourceNames \cup {"Unknown"} :
          /\ lastOp' = [op |-> "select_source", arg |-> source]
          /\ calls' = SelectSource(sources, source)
    /\ UNCHANGED <<vendor, callbacks, platform_state, result>>

AsyncSetShuffle ==
    /\ \E shuffle \in BOOLEAN :
          /\ lastOp' = [op |-> "set_shuffle", arg |-> shuffle]
          /\ calls' = SetShuffle(shuffle)
    /\ UNCHANGED <<vendor, callbacks, platform_state, result>>

AsyncSetRepeat ==
    /\ \E repeat \in RepeatModes :
          /\ lastOp' = [op |-> "set_repeat", arg |-> repeat]
          /\ calls' = SetRepeat(repeat)
    /\ UNCHANGED <<vendor, callbacks, platform_state, result>>

AsyncAddedToHass ==
    /\ CanAdd
    /\ platform_state' = "added"
    /\ callbacks' = Register(callbacks, AddedCallback)
    /\ lastOp' = [op |-> "added_to_hass"]
    /\ calls' = <<CallWith("register_state_update_callbacks", AddedCallback)>>
    /\ UNCHANGED <<vendor, result>>

AsyncWillRemoveFromHass ==
    /\ CanRemove
    /\ platform_state' = "removed"
    /\ callbacks' = Unregister(callbacks, WillRemoveCallback)
    /\ lastOp' = [op |-> "will_remove_from_hass"]
    /\ calls' = <<CallWith("unregister_state_update_callbacks",
                           WillRemoveCallback)>>
    /\ UNCHANGED <<vendor, result>>

\* A vendor push event: the client refreshes its play state and invokes
\* every registered callback.
VendorPush ==
    /\ \E ps \in PlayStates, pw \in BOOLEAN, ms \in ShuffleModes :
          /\ play_state' = ps
          /\ power' = pw
          /\ mode_shuffle' = ms
    /\ lastOp' = [op |-> "vendor_push"]
    /\ calls' = Notify(callbacks)
    /\ result' = NoResult
    /\ UNCHANGED <<pre_amp_mode, controls, sources, callbacks, platform_state>>

\* The vendor client starts or stops advertising one transport control, or
\* enters or leaves pre-amp mode.
VendorControlsUpdate ==
    /\ \/ /\ \E c \in TransportControl :
                controls' = IF c \in controls THEN controls \ {c}
                                              ELSE controls \cup {c}
          /\ UNCHANGED pre_amp_mode
       \/ /\ pre_amp_mode' = ~pre_amp_mode
          /\ UNCHANGED controls
    /\ lastOp' = [op |-> "vendor_update"]
    /\ calls' = <<>>
    /\ result' = NoResult
    /\ UNCHANGED <<play_state, power, sources, mode_shuffle,
                   callbacks, platform_state>>

\* The vendor client reports another play state, power flag or shuffle mode.
VendorPlayStateUpdate ==
    /\ \E ps \in PlayStates, pw \in BOOLEAN, ms \in ShuffleModes :
          /\ play_state' = ps
          /\ power' = pw
          /\ mode_shuffle' = ms
    /\ lastOp' = [op |-> "vendor_update"]
    /\ calls' = <<>>
    /\ result' = NoResult
    /\ UNCHANGED <<pre_amp_mode, controls, sources, callbacks, platform_state>>

\* The vendor client reports another source list.
VendorSourcesUpdate ==
    /\ \E srcs \in SourceLists : sources' = srcs
    /\ lastOp' = [op |-> "vendor_update"]
    /\ calls' = <<>>
    /\ result' = NoResult
    /\ UNCHANGED <<play_state, power, pre_amp_mode, controls, mode_shuffle,
                   callbacks, platform_state>>

\* The vendor client carries out the set_shuffle call the last command made:
\* its snapshot then reports the forwarded mode.
VendorApplyShuffle ==
    /\ lastOp.op = "set_shuffle"
    /\ Len(calls) = 1
    /\ calls[1].call = "set_shuffle"
    /\ mode_shuffle' = calls[1].arg
    /\ result' = NoResult
    /\ UNCHANGED <<play_state, power, pre_amp_mode, controls, sources,
                   callbacks, platform_state, lastOp, calls>>

----------------------------------------------------------------------------
\* Specifications

InitEntity ==
    /\ callbacks = <<>>
    /\ platform_state = "not_added"
    /\ lastOp = [op |-> "init"]
    /\ calls = <<>>
    /\ result = NoResult

\* Transport controls and capabilities
InitTransport ==
    /\ controls \in SUBSET TransportControl
    /\ pre_amp_mode \in BOOLEAN
    /\ play_state = "NETWORK"
    /\ power = FALSE
    /\ sources = <<>>
    /\ mode_shuffle = None
    /\ InitEntity

NextTransport ==
    \/ VendorControlsUpdate
    \/ GetSupportedFeatures
    \/ AsyncMediaPlay
    \/ AsyncMediaPause
    \/ AsyncMediaPlayPause

SpecTransport == InitTransport /\ [][NextTransport]_vars

\* Play state, power, shuffle and repeat
InitPlayback ==
    /\ play_state \in PlayStates
    /\ power \in BOOLEAN
    /\ mode_shuffle \in ShuffleModes
    /\ controls = {}
    /\ pre_amp_mode = FALSE
    /\ sources = <<>>
    /\ InitEntity

NextPlayback ==
    \/ VendorPlayStateUpdate
    \/ GetState
    \/ GetShuffle
    \/ AsyncSetShuffle
    \/ AsyncSetRepeat
    \/ VendorApplyShuffle

SpecPlayback == InitPlayback /\ [][NextPlayback]_vars

\* Source selection
InitSource ==
    /\ sources \in SourceLists
    /\ play_state = "NETWORK"
    /\ power = FALSE
    /\ controls = {}
    /\ pre_amp_mode = FALSE
    /\ mode_shuffle = None
    /\ InitEntity

NextSource ==
    \/ VendorSourcesUpdate
    \/ AsyncSelectSource

SpecSource == InitSource /\ [][NextSource]_vars

\* Notification subscription over the entity's lifecycle
InitNotify ==
    /\ play_state \in PlayStates
    /\ power \in BOOLEAN
    /\ mode_shuffle \in ShuffleModes
    /\ controls = {}
    /\ pre_amp_mode = FALSE
    /\ sources = <<>>
    /\ InitEntity

NextNotify ==
    \/ AsyncAddedToHass
    \/ AsyncWillRemoveFromHass
    \/ VendorPush

SpecNotify == InitNotify /\ [][NextNotify]_vars

----------------------------------------------------------------------------
\* Properties

Toggle == Call("play_pause")

\* C1: whenever the state getter has returned, its value is the row of the
\* state table for the snapshot's play state and power flag: STANDBY for
\* "NETWORK" whatever the power, otherwise OFF without power, otherwise
\* PLAYING, PAUSED, BUFFERING, IDLE (stop or ready), and ON for any other.
C1_StateTable ==
    result.get = "state" =>
        /\ play_state = "NETWORK" => result.value = "STANDBY"
        /\ play_state # "NETWORK" /\ ~power => result.value = "OFF"
        /\ play_state = "play" /\ power => result.value = "PLAYING"
        /\ play_state = "pause" /\ power => result.value = "PAUSED"
        /\ play_state = "connecting" /\ power => result.value = "BUFFERING"
        /\ play_state \in {"stop", "ready"} /\ power => result.value = "IDLE"
        /\ play_state \notin {"NETWORK", "play", "pause", "connecting",
                              "stop", "ready"} /\ power
               => result.value = "ON"

\* The row that overrides the power flag: "NETWORK" without power.
C1_Witness ==
    /\ result.get = "state"
    /\ play_state = "NETWORK"
    /\ ~power
    /\ result.value = "STANDBY"

\* C2: set_repeat makes exactly one set_repeat call, with mode ALL for the
\* requests ALL and ONE and mode OFF for the request OFF.
C2_SetRepeatForwards ==
    lastOp.op = "set_repeat" =>
        calls = <<CallWith("set_repeat",
                           IF lastOp.arg = RepeatMode.OFF THEN "OFF" ELSE "ALL")>>

\* C4: whenever the capability getter has returned, each feature is in the
\* returned set exactly when the snapshot calls for it: the base features
\* always, the pre-amp features iff pre-amp mode is active, PLAY and PAUSE iff
\* the discrete control or the combined play-pause control is advertised, each
\* other feature iff its control is advertised, and nothing else.  With
\* pre-amp inactive and controls {PLAY, TRACK_NEXT} the set is the base
\* features with PLAY and NEXT_TRACK.
C4_SupportedFeatures ==
    result.get = "supported_features" =>
        LET has(f) == f \in result.value
            adv(c) == c \in controls
        IN  /\ \A f \in BASE_FEATURES : has(f)
            /\ \A f \in PREAMP_FEATURES : has(f) <=> pre_amp_mode
            /\ has("PLAY") <=> (adv("PLAY") \/ adv("PLAY_PAUSE"))
            /\ has("PAUSE") <=> (adv("PAUSE") \/ adv("PLAY_PAUSE"))
            /\ has("NEXT_TRACK") <=> adv("TRACK_NEXT")
            /\ has("PREVIOUS_TRACK") <=> adv("TRACK_PREVIOUS")
            /\ has("REPEAT_SET") <=> adv("TOGGLE_REPEAT")
            /\ has("SHUFFLE_SET") <=> adv("TOGGLE_SHUFFLE")
            /\ has("SEEK") <=> adv("SEEK")
            /\ result.value \subseteq
                   BASE_FEATURES \cup PREAMP_FEATURES \cup
                   {"PLAY", "PAUSE", "NEXT_TRACK", "PREVIOUS_TRACK",
                    "REPEAT_SET", "SHUFFLE_SET", "SEEK"}
            /\ (~pre_amp_mode /\ controls = {"PLAY", "TRACK_NEXT"})
                   => result.value = BASE_FEATURES \cup {"PLAY", "NEXT_TRACK"}

C4_Witness ==
    /\ result.get = "supported_features"
    /\ ~pre_amp_mode
    /\ controls = {"PLAY", "TRACK_NEXT"}
    /\ "PLAY" \in result.value
    /\ "PAUSE" \notin result.value

\* C5: the play command makes exactly one vendor call: the toggle iff the
\* discrete play control is not advertised and the combined play-pause
\* control is; otherwise the direct play call.
C5_PlayDispatch ==
    lastOp.op = "media_play" =>
        /\ Len(calls) = 1
        /\ calls[1] \in {Toggle, Call("play")}
        /\ calls[1] = Toggle
               <=> ("PLAY" \notin controls /\ "PLAY_PAUSE" \in controls)

C5_Witness ==
    /\ lastOp.op = "media_play"
    /\ controls = {"PLAY_PAUSE"}
    /\ calls = <<Toggle>>

\* C6: the pause command makes exactly one vendor call: the toggle iff the
\* discrete pause control is not advertised and the combined play-pause
\* control is; otherwise the direct pause call.  The play/pause toggle
\* command always makes the toggle call.
C6_PauseDispatch ==
    /\ lastOp.op = "media_pause" =>
           /\ Len(calls) = 1
           /\ calls[1] \in {Toggle, Call("pause")}
           /\ calls[1] = Toggle
                  <=> ("PAUSE" \notin controls /\ "PLAY_PAUSE" \in controls)
    /\ lastOp.op = "media_play_pause" => calls = <<Toggle>>

C6_Witness ==
    /\ lastOp.op = "media_pause"
    /\ controls = {"PAUSE", "PLAY_PAUSE"}
    /\ calls = <<Call("pause")>>

\* C7: select_source(name) makes exactly one set_source_by_id call, carrying
\* the id of the first source of the list with that name, when some source
\* has the name, and no call at all when none has.
C7_SelectSource ==
    lastOp.op = "select_source" =>
        LET matches == {i \in 1..Len(sources) : sources[i].name = lastOp.arg}
            first == CHOOSE i \in matches : \A j \in matches : i <= j
        IN  IF matches = {}
            THEN calls = <<>>
            ELSE calls = <<CallWith("set_source_by_id", sources[first].id)>>

\* Two sources share the requested name and differ in id.
C7_Witness ==
    /\ lastOp.op = "select_source"
    /\ Len(sources) >= 2
    /\ sources[1].name # lastOp.arg
    /\ \E i, j \in 1..Len(sources) :
          /\ i < j
          /\ sources[i].name = lastOp.arg
          /\ sources[j].name = lastOp.arg
          /\ sources[i].id # sources[j].id
          /\ \A k \in 1..(i - 1) : sources[k].name # lastOp.arg
          /\ calls = <<CallWith("set_source_by_id", sources[i].id)>>

\* C8: a vendor push event makes exactly one re-publish request while the
\* entity is added, and none before activation or after deactivation; the
\* callback activation registered is no longer registered after deactivation.
C8_PushRepublish ==
    /\ lastOp.op = "vendor_push" =>
           calls = IF platform_state = "added"
                   THEN <<Call("schedule_update_ha_state")>>
                   ELSE <<>>
    /\ platform_state = "added" => callbacks = <<AddedCallback>>
    /\ platform_state = "removed" =>
           \A i \in 1..Len(callbacks) : callbacks[i] # AddedCallback

C8_Witness ==
    /\ platform_state = "removed"
    /\ lastOp.op = "vendor_push"
    /\ calls = <<>>

\* C9: when the capability set has PLAY, the play command's call is for an
\* advertised control (direct play with PLAY advertised, the toggle with
\* PLAY_PAUSE advertised), and likewise PAUSE and the pause command; a call
\* for a control that is not advertised is made only when the feature is
\* absent.
C9_FeaturesAgreeWithDispatch ==
    LET features == SupportedFeatures(controls, pre_amp_mode)
        advertised(c) ==
            \/ c = Call("play") /\ "PLAY" \in controls
            \/ c = Call("pause") /\ "PAUSE" \in controls
            \/ c = Toggle /\ "PLAY_PAUSE" \in controls
    IN  /\ (lastOp.op = "media_play" /\ "PLAY" \in features)
               => Len(calls) = 1 /\ advertised(calls[1])
        /\ (lastOp.op = "media_pause" /\ "PAUSE" \in features)
               => Len(calls) = 1 /\ advertised(calls[1])
        /\ (lastOp.op = "media_play" /\ ~advertised(calls[1]))
               => calls = <<Call("play")>> /\ "PLAY" \notin features
        /\ (lastOp.op = "media_pause" /\ ~advertised(calls[1]))
               => calls = <<Call("pause")>> /\ "PAUSE" \notin features

\* Neither play nor play-pause is advertised: direct play, feature absent.
C9_Witness ==
    /\ lastOp.op = "media_play"
    /\ "PLAY" \notin controls
    /\ "PLAY_PAUSE" \notin controls
    /\ "PAUSE" \in controls
    /\ calls = <<Call("play")>>
    /\ "PLAY" \notin SupportedFeatures(controls, pre_amp_mode)

\* C10: set_shuffle(b) forwards mode ALL for b true and OFF for b false;
\* once the snapshot reports the forwarded mode the shuffle getter returns b;
\* the getter returns false for no mode and for OFF, true for any other mode.
C10_ShuffleRoundTrip ==
    /\ lastOp.op = "set_shuffle" =>
           calls = <<CallWith("set_shuffle",
                              IF lastOp.arg THEN "ALL" ELSE "OFF")>>
    /\ (/\ lastOp.op = "set_shuffle"
        /\ Len(calls) = 1
        /\ mode_shuffle = calls[1].arg
        /\ result.get = "shuffle") => result.value = lastOp.arg
    /\ result.get = "shuffle" =>
           result.value = (mode_shuffle \notin {None, "OFF"})

C10_Witness ==
    /\ lastOp.op = "set_shuffle"
    /\ lastOp.arg = TRUE
    /\ calls = <<CallWith("set_shuffle", "ALL")>>
    /\ mode_shuffle = "ALL"
    /\ result.get = "shuffle"
    /\ result.value = TRUE

====
